---- MODULE Spec2Model ----
(***************************************************************************)
(* Model of the acquisitions user-management backend: the users table, the *)
(* token middleware, the users/auth controllers and the users service.     *)
(* Every request is a process (a slot) whose steps are the handlers and    *)
(* the single database statements the service awaits; statements of        *)
(* concurrent requests interleave freely.                                  *)
(*                                                                         *)
(* Strings that the code converts (trim, toLowerCase, parseInt) are        *)
(* sequences of one-character strings, so the conversions are computed.    *)
(***************************************************************************)
EXTENDS Integers, Sequences, FiniteSets, TLC

(* ------------------------------ bounds -------------------------------- *)

\* the last id the serial column hands out: signups stop there
MaxUsers == 3
\* requests accepted in one behaviour
MaxRequests == 2

\* the concurrent requests in flight
Slots == {"r1", "r2"}

(* --------------------------- program constants ------------------------ *)

MinNameLen == 2
MaxNameLen == 255
MaxEmailLen == 255

(* ------------------------------ strings ------------------------------- *)

Digits == <<"0", "1", "2", "3", "4", "5", "6", "7", "8", "9">>

IsDigit(c) == \E i \in 1..10 : Digits[i] = c

DigitValue(c) == (CHOOSE i \in 1..10 : Digits[i] = c) - 1

\* String.prototype.toLowerCase, character by character
LowerChar(c) ==
    CASE c = "A" -> "a"
      [] c = "B" -> "b"
      [] c = "C" -> "c"
      [] OTHER -> c

ToLowerCase(s) == [i \in 1..Len(s) |-> LowerChar(s[i])]

RECURSIVE TrimStart(_)
TrimStart(s) ==
    IF s # <<>> /\ Head(s) = " " THEN TrimStart(Tail(s)) ELSE s

RECURSIVE TrimEnd(_)
TrimEnd(s) ==
    IF s # <<>> /\ s[Len(s)] = " " THEN TrimEnd(SubSeq(s, 1, Len(s) - 1)) ELSE s

\* String.prototype.trim
Trim(s) == TrimEnd(TrimStart(s))

\* the longest prefix of decimal digits, as parseInt reads it
RECURSIVE DigitPrefix(_)
DigitPrefix(s) ==
    IF s # <<>> /\ IsDigit(Head(s)) THEN <<Head(s)>> \o DigitPrefix(Tail(s)) ELSE <<>>

RECURSIVE DecimalValue(_)
DecimalValue(ds) ==
    IF ds = <<>> THEN 0
    ELSE 10 * DecimalValue(SubSeq(ds, 1, Len(ds) - 1)) + DigitValue(ds[Len(ds)])

\* parseInt(val, 10): leading white space skipped, an optional sign, then the
\* longest digit prefix; NaN when there is no digit
ParseInt(val) ==
    LET t    == TrimStart(val)
        neg  == t # <<>> /\ Head(t) = "-"
        body == IF t # <<>> /\ Head(t) \in {"-", "+"} THEN Tail(t) ELSE t
        ds   == DigitPrefix(body)
    IN  IF ds = <<>> THEN [nan |-> TRUE, val |-> 0]
        ELSE [nan |-> FALSE,
              val |-> IF neg THEN 0 - DecimalValue(ds) ELSE DecimalValue(ds)]

\* zod's email check, by shape: one "@", something on both sides, no blank
IsEmail(s) ==
    /\ Cardinality({i \in 1..Len(s) : s[i] = "@"}) = 1
    /\ \A i \in 1..Len(s) : s[i] # " "
    /\ s[1] # "@"
    /\ s[Len(s)] # "@"

(* ------------------------------ schemas ------------------------------- *)

\* userIdSchema.safeParse({ id })
UserIdSchema(raw) ==
    LET n == ParseInt(raw)
    IN  IF Len(raw) < 1 THEN [success |-> FALSE, id |-> 0]
        ELSE IF ~n.nan /\ n.val > 0 THEN [success |-> TRUE, id |-> n.val]
        ELSE [success |-> FALSE, id |-> 0]

UpdateKeys == {"name", "email", "role"}

\* the value updateUserSchema produces for one recognised key
UpdateField(k, v) ==
    CASE k = "name"  -> Trim(v)
      [] k = "email" -> Trim(ToLowerCase(v))
      [] OTHER       -> v

\* whether one recognised key passes its checks
UpdateFieldOk(k, v) ==
    CASE k = "name"  -> Len(Trim(v)) >= MinNameLen /\ Len(Trim(v)) <= MaxNameLen
      [] k = "email" -> v # <<>> /\ IsEmail(v) /\ Len(v) <= MaxEmailLen
      [] OTHER       -> v \in {"user", "admin"}

\* updateUserSchema without its refine
UpdateUserSchemaNoRefine(body) ==
    LET keys == DOMAIN body \cap UpdateKeys
        data == [k \in keys |-> UpdateField(k, body[k])]
    IN  [success |-> \A k \in keys : UpdateFieldOk(k, body[k]),
         data    |-> data]

\* updateUserSchema.safeParse(req.body): unrecognised keys are stripped, each
\* field is checked and converted, and an empty result is refused
UpdateUserSchema(body) ==
    LET keys == DOMAIN body \cap UpdateKeys
        data == [k \in keys |-> UpdateField(k, body[k])]
    IN  [success |-> (\A k \in keys : UpdateFieldOk(k, body[k])) /\ keys # {},
         data    |-> data]

(* ------------------------------ inputs -------------------------------- *)

\* the :id path segments a client sends
RawIds ==
    { <<"1">>, <<"2">>, <<"3">>, <<"0">>, <<"2", "x">>, <<"x">> }

\* PUT bodies: name, email and role in the combinations the handlers tell
\* apart, with values that pass and values that fail their checks, and an
\* unrecognised key
UpdateBodies ==
    { <<>>,
      [extra |-> "x"],
      [name |-> <<" ", "b", "o">>],
      [email |-> <<"B", "@", "x">>],
      [email |-> <<"C", "@", "x">>],
      [email |-> <<"a", "x">>],
      [role |-> "admin"],
      [role |-> "user"],
      [role |-> "root"],
      [name |-> <<" ", "b", "o">>, email |-> <<"C", "@", "x">>],
      [name |-> <<" ", "b", "o">>, email |-> <<"B", "@", "x">>],
      [name |-> <<" ", "b", "o">>, role |-> "admin"],
      [name |-> <<" ", "z">>, role |-> "admin"],
      [name |-> <<" ", "b", "o">>, extra |-> "x"] }

\* signup bodies: a name that passes or fails, an email that is new, taken or
\* malformed, and a role that is absent, valid or invalid
SignupBodies ==
    { [name |-> n, email |-> e, password |-> "secret123"] :
          n \in { <<"a", "l">>, <<" ", "z">> },
          e \in { <<"C", "@", "x">>, <<"B", "@", "x">>, <<"a", "x">> } }
    \cup { [name |-> n, email |-> e, password |-> "secret123", role |-> ro] :
          n \in { <<"a", "l">>, <<" ", "z">> },
          e \in { <<"C", "@", "x">>, <<"B", "@", "x">>, <<"a", "x">> },
          ro \in { "admin", "root" } }

\* signin bodies
SigninBodies ==
    { [email |-> e, password |-> p] :
          e \in { <<"A", "@", "x">>, <<"b", "@", "x">>, <<"a", "x">> },
          p \in { "secret123", "wrongpass" } }

(* ------------------------------- state -------------------------------- *)

VARIABLES
    db,       \* the users table: id -> row, for the ids that have a row
    nextId,   \* the serial id the next insert gets
    now,      \* the time of the last write; every write happens at a new instant
    issued,   \* the claims of every token signed so far
    served,   \* how many requests have been accepted
    gone,     \* the ids a DELETE has answered 200 for
    req       \* the requests in flight, one per slot

vars == <<db, nextId, now, issued, served, gone, req>>

NoClaims == [id |-> 0, email |-> <<>>, role |-> "none"]

NoCookie == [kind |-> "none", claims |-> NoClaims, sig |-> "none", expired |-> FALSE]

GarbageCookie ==
    [kind |-> "garbage", claims |-> NoClaims, sig |-> "none", expired |-> FALSE]

Jwt(c, sig, expired) == [kind |-> "jwt", claims |-> c, sig |-> sig, expired |-> expired]

\* a token nobody signed: admin claims under a wrong signature
ForgedClaims == [id |-> 1, email |-> <<"a", "@", "x">>, role |-> "admin"]

\* what a client may put in the token cookie: nothing, junk, a token the server
\* signed (possibly past its expiry), or a forgery
Cookies ==
    { NoCookie, GarbageCookie, Jwt(ForgedClaims, "bad", FALSE) }
    \cup { Jwt(c, "good", FALSE) : c \in issued }
    \cup { Jwt(c, "good", TRUE) : c \in issued }

\* a slot with no request in it. warned and orphan are records for the
\* properties: that the handler logged its self-delete warning, and that the
\* user the token names had been deleted when the request arrived
IdleReq ==
    [pc |-> "idle", method |-> "none", cookie |-> NoCookie, user |-> NoClaims,
     rawId |-> <<>>, rawBody |-> <<>>, id |-> 0, updates |-> <<>>,
     res |-> [status |-> 0], passed |-> FALSE, warned |-> FALSE,
     orphan |-> FALSE]

\* the stored form of a password
Hash(password) == <<"hash", password>>

\* the table the server starts on: an administrator and a user, signed up earlier
InitialUsers ==
    <<[name |-> <<"a", "l">>, email |-> <<"a", "@", "x">>,
       password |-> Hash("secret123"), role |-> "admin",
       createdAt |-> 1, updatedAt |-> 1],
      [name |-> <<"a", "l">>, email |-> <<"b", "@", "x">>,
       password |-> Hash("secret123"), role |-> "user",
       createdAt |-> 2, updatedAt |-> 2]>>

Init ==
    /\ db = InitialUsers
    /\ nextId = 3
    /\ now = 2
    /\ issued = { [id |-> i, email |-> InitialUsers[i].email,
                   role |-> InitialUsers[i].role] : i \in 1..2 }
    /\ served = 0
    /\ gone = {}
    /\ req = [r \in Slots |-> IdleReq]

(* ------------------------------ responses ----------------------------- *)

\* res.status(status).json(body)
Respond(s, status, body) ==
    [s EXCEPT !.pc = "done", !.res = [status |-> status, body |-> body]]

\* res.status(500).json(body); next(e)
RespondAndPass(s, body) ==
    [s EXCEPT !.pc = "done", !.res = [status |-> 500, body |-> body],
              !.passed = TRUE]

\* next(e) with no answer written: the error goes to the application's handler
Pass(s) == [s EXCEPT !.pc = "done", !.passed = TRUE]

ValidationFailed == [error |-> "Validation failed", details |-> "details"]

(* --------------------------- the users table -------------------------- *)

\* a select that names every column
PublicWithPassword(table, id) ==
    [id |-> id, name |-> table[id].name, email |-> table[id].email,
     password |-> table[id].password,
     role |-> table[id].role, createdAt |-> table[id].createdAt,
     updatedAt |-> table[id].updatedAt]

\* the columns every select and returning clause of the users service names
Public(table, id) ==
    [id |-> id, name |-> table[id].name, email |-> table[id].email,
     role |-> table[id].role, createdAt |-> table[id].createdAt,
     updatedAt |-> table[id].updatedAt]

\* db.select({...}).from(users).where(eq(users.id, id))
SelectById(id) == IF id \in DOMAIN db THEN <<Public(db, id)>> ELSE <<>>

\* db.select({ id }).from(users).where(eq(users.email, email))
SelectByEmail(email) == { i \in DOMAIN db : db[i].email = email }

\* a select that returns one page of the table
SelectAllPaged == { Public(db, i) : i \in DOMAIN db \cap 1..2 }

\* db.select({...}).from(users)
SelectAll == { Public(db, i) : i \in DOMAIN db }

\* a table without the constraint
UniqueNotEnforced(id, email) == FALSE

\* the unique constraint of the email column: the row id may not take an email
\* another row holds
UniqueViolation(id, email) ==
    \E i \in DOMAIN db : i # id /\ db[i].email = email

\* a delete without its where clause
DeleteWithoutWhere(table, id) == [i \in {} |-> table[i]]

\* a delete whose where clause matches no row
DeleteMatchesNothing(table, id) == table

\* db.delete(users).where(eq(users.id, id)): the table without the row
DeleteFrom(table, id) == [i \in DOMAIN table \ {id} |-> table[i]]

\* a set() that writes every column of the payload's shape, the missing ones
\* with their defaults
MergedWithDefaults(row, updateData) ==
    [c \in DOMAIN row |-> IF c \in DOMAIN updateData THEN updateData[c]
                          ELSE IF c = "role" THEN "user" ELSE row[c]]

\* the row after set(updateData): the provided columns replaced, the rest kept
Merged(row, updateData) ==
    [c \in DOMAIN row |-> IF c \in DOMAIN updateData THEN updateData[c] ELSE row[c]]

(* ------------------------------- tokens ------------------------------- *)

\* jwttoken.verify: the claims of a well-formed token with a good signature
\* that has not expired; anything else throws
JwtVerifies(cookie) ==
    cookie.kind = "jwt" /\ cookie.sig = "good" /\ ~cookie.expired

\* a token signed without the role
ClaimsWithoutRole(user) == [id |-> user.id, email |-> user.email, role |-> "none"]

\* jwttoken.sign({ id, email, role })
Claims(user) == [id |-> user.id, email |-> user.email, role |-> user.role]

(* --------------------------- auth middleware -------------------------- *)

ProtectedMethods == {"GET", "PUT", "DELETE"}

\* no request is between its middleware and the first await of its controller:
\* that stretch is synchronous, and nothing else runs during it
NoneRunning == \A q \in Slots : req[q].pc # "controller"

\* a slot a new request can take, and room for one more request
Free(r) == req[r].pc \in {"idle", "done"} /\ served < MaxRequests /\ NoneRunning

\* the middleware with the token decoded but never verified
AuthenticateTokenUnverified(s) ==
    IF s.cookie.kind # "jwt"
    THEN Respond(s, 401, [error |-> "Unauthorized", message |-> "No token provided"])
    ELSE [s EXCEPT !.pc = "controller", !.user = s.cookie.claims]

\* authenticateToken: no cookie, or a token that does not verify, is answered
\* 401; otherwise req.user is the decoded claims and the controller runs
AuthenticateTokenResult(s) ==
    IF s.cookie.kind = "none"
    THEN Respond(s, 401, [error |-> "Unauthorized", message |-> "No token provided"])
    ELSE IF ~JwtVerifies(s.cookie)
    THEN Respond(s, 401, [error |-> "Unauthorized",
                          message |-> "Invalid or expired token"])
    ELSE [s EXCEPT !.pc = "controller", !.user = s.cookie.claims]

\* a request for a protected route arrives: router.<method>('/:id',
\* authenticateToken, <controller>)
AuthenticateToken(r) ==
    /\ Free(r)
    /\ \E m \in ProtectedMethods, c \in Cookies, rawId \in RawIds :
         req' = [req EXCEPT ![r] = AuthenticateTokenResult(
                    [IdleReq EXCEPT !.method = m, !.cookie = c, !.rawId = rawId,
                                    !.orphan = c.claims.id \in gone])]
    /\ served' = served + 1
    /\ UNCHANGED <<db, nextId, now, issued, gone>>

(* --------------------------- users controller ------------------------- *)

Unauthenticated == [error |-> "Unauthorized", message |-> "Authentication required"]

\* the ownership check with the comparison of ids inverted
OwnerIsRefused(user, id) == user.role # "admin" /\ user.id = id

\* users.controller.js:102 and :167, the ownership check
NotOwnerNorAdmin(user, id) == user.role # "admin" /\ user.id # id

\* the role check left out
RoleCheckSkipped(user, updates) == FALSE

\* users.controller.js:110, the role check
RoleChangeByNonAdmin(user, updates) ==
    "role" \in DOMAIN updates /\ user.role # "admin"

\* getUserById with the ownership check of updateUser and deleteUser
GetUserByIdOwnerOnly(s) ==
    LET v == UserIdSchema(s.rawId)
    IN  IF ~v.success THEN Respond(s, 400, ValidationFailed)
        ELSE IF NotOwnerNorAdmin(s.user, v.id)
        THEN Respond(s, 403, [error |-> "Forbidden",
                 message |-> "You can only access your own information"])
        ELSE [s EXCEPT !.pc = "getUserById", !.id = v.id]

\* getUserById up to its service call
GetUserByIdController(s) ==
    LET v == UserIdSchema(s.rawId)
    IN  IF ~v.success THEN Respond(s, 400, ValidationFailed)
        ELSE [s EXCEPT !.pc = "getUserById", !.id = v.id]

\* updateUser up to its service call
UpdateUserController(s) ==
    LET v == UserIdSchema(s.rawId)
        u == UpdateUserSchema(s.rawBody)
    IN  IF ~v.success THEN Respond(s, 400, ValidationFailed)
        ELSE IF ~u.success THEN Respond(s, 400, ValidationFailed)
        ELSE IF s.user = NoClaims THEN Respond(s, 401, Unauthenticated)
        ELSE IF NotOwnerNorAdmin(s.user, v.id)
        THEN Respond(s, 403, [error |-> "Forbidden",
                 message |-> "You can only update your own information"])
        ELSE IF RoleChangeByNonAdmin(s.user, u.data)
        THEN Respond(s, 403, [error |-> "Forbidden",
                 message |-> "Only administrators can change user roles"])
        ELSE [s EXCEPT !.pc = "getUserById", !.id = v.id, !.updates = u.data]

\* users.controller.js:175, the condition of the logger.warn
AdminDeletesSelf(user, id) == user.id = id /\ user.role = "admin"

\* deleteUser with the admin's own account protected
DeleteUserKeepsAdmin(s) ==
    LET v == UserIdSchema(s.rawId)
    IN  IF ~v.success THEN Respond(s, 400, ValidationFailed)
        ELSE IF s.user = NoClaims THEN Respond(s, 401, Unauthenticated)
        ELSE IF NotOwnerNorAdmin(s.user, v.id)
        THEN Respond(s, 403, [error |-> "Forbidden",
                 message |-> "You can only delete your own account"])
        ELSE IF AdminDeletesSelf(s.user, v.id)
        THEN Respond(s, 403, [error |-> "Forbidden",
                 message |-> "Admins cannot delete their own account"])
        ELSE [s EXCEPT !.pc = "getUserById", !.id = v.id]

\* deleteUser up to its service call; warned records the logger.warn
DeleteUserController(s) ==
    LET v == UserIdSchema(s.rawId)
    IN  IF ~v.success THEN Respond(s, 400, ValidationFailed)
        ELSE IF s.user = NoClaims THEN Respond(s, 401, Unauthenticated)
        ELSE IF NotOwnerNorAdmin(s.user, v.id)
        THEN Respond(s, 403, [error |-> "Forbidden",
                 message |-> "You can only delete your own account"])
        ELSE [s EXCEPT !.pc = "getUserById", !.id = v.id,
                       !.warned = AdminDeletesSelf(s.user, v.id)]

\* GET /users/:id reaches its controller
GetUserById(r) ==
    /\ req[r].pc = "controller"
    /\ req[r].method = "GET"
    /\ req' = [req EXCEPT ![r] = GetUserByIdController(req[r])]
    /\ UNCHANGED <<db, nextId, now, issued, served, gone>>

\* PUT /users/:id reaches its controller, which reads the body
UpdateUser(r) ==
    /\ req[r].pc = "controller"
    /\ req[r].method = "PUT"
    /\ \E body \in UpdateBodies :
         req' = [req EXCEPT ![r] =
                    UpdateUserController([req[r] EXCEPT !.rawBody = body])]
    /\ UNCHANGED <<db, nextId, now, issued, served, gone>>

\* DELETE /users/:id reaches its controller
DeleteUser(r) ==
    /\ req[r].pc = "controller"
    /\ req[r].method = "DELETE"
    /\ req' = [req EXCEPT ![r] = DeleteUserController(req[r])]
    /\ UNCHANGED <<db, nextId, now, issued, served, gone>>

\* GET /users: fetchAllUsers, no middleware in front of it; whatever cookie the
\* request carries is not looked at
FetchAllUsers(r) ==
    /\ Free(r)
    /\ \E c \in Cookies :
         req' = [req EXCEPT ![r] =
                   Respond([IdleReq EXCEPT !.method = "GETALL", !.cookie = c], 200,
                           [message |-> "Successfully fetched all users",
                            users |-> SelectAll,
                            count |-> Cardinality(SelectAll)])]
    /\ served' = served + 1
    /\ UNCHANGED <<db, nextId, now, issued, gone>>

\* the catch block of getUserById
GetUserByIdCatch(s, e) ==
    IF e = "User not found" THEN Respond(s, 404, [error |-> "User not found"])
    ELSE RespondAndPass(s, [message |-> "Error getting user"])

\* the catch block of updateUser without its 'User not found' branch
UpdateUserCatchNoNotFound(s, e) ==
    IF e = "Email already exists"
    THEN Respond(s, 409, [error |-> "Email already exists"])
    ELSE RespondAndPass(s, [message |-> "Error updating user"])

\* the catch block of updateUser
UpdateUserCatch(s, e) ==
    IF e = "User not found" THEN Respond(s, 404, [error |-> "User not found"])
    ELSE IF e = "Email already exists"
    THEN Respond(s, 409, [error |-> "Email already exists"])
    ELSE RespondAndPass(s, [message |-> "Error updating user"])

\* the catch block of deleteUser answering with the error's own message
DeleteUserCatchLeaks(s, e) ==
    IF e = "User not found" THEN Respond(s, 404, [error |-> "User not found"])
    ELSE RespondAndPass(s, [message |-> e])

\* the catch block of deleteUser
DeleteUserCatch(s, e) ==
    IF e = "User not found" THEN Respond(s, 404, [error |-> "User not found"])
    ELSE RespondAndPass(s, [message |-> "Error deleting user"])

Catch(s, e) ==
    CASE s.method = "GET" -> GetUserByIdCatch(s, e)
      [] s.method = "PUT" -> UpdateUserCatch(s, e)
      [] OTHER            -> DeleteUserCatch(s, e)

(* ----------------------------- users service -------------------------- *)

\* the email looked up whenever the update carries one
EmailAlwaysLookedUp(updates, existingUser) == "email" \in DOMAIN updates

\* the email never looked up
EmailNeverChecked(updates, existingUser) == FALSE

\* updateUser, line 50: the email is looked up only when the update carries one
\* that differs from the row just read
EmailIsChanging(updates, existingUser) ==
    "email" \in DOMAIN updates /\ updates.email # existingUser.email

\* where a request goes once getUserById has found its row
AfterFound(s, user) ==
    CASE s.method = "GET" ->
           Respond(s, 200, [message |-> "Successfully fetched user", user |-> user])
      [] s.method = "PUT" ->
           [s EXCEPT !.pc = IF EmailIsChanging(s.updates, user)
                            THEN "emailExists" ELSE "update"]
      [] OTHER -> [s EXCEPT !.pc = "delete"]

\* the service's getUserById: one select; no row throws 'User not found'. It is
\* the whole of GET /users/:id and the first statement of updateUser and deleteUser
ServiceGetUserById(r) ==
    /\ req[r].pc = "getUserById"
    /\ NoneRunning
    /\ LET result == SelectById(req[r].id)
       IN  req' = [req EXCEPT ![r] =
                     IF Len(result) = 0 THEN Catch(req[r], "User not found")
                     ELSE AfterFound(req[r], result[1])]
    /\ UNCHANGED <<db, nextId, now, issued, served, gone>>

\* updateUser, lines 51-57: the select by email; any row throws
ServiceEmailExists(r) ==
    /\ req[r].pc = "emailExists"
    /\ NoneRunning
    /\ LET emailExists == SelectByEmail(req[r].updates.email)
       IN  req' = [req EXCEPT ![r] =
                     IF Cardinality(emailExists) > 0
                     THEN Catch(req[r], "Email already exists")
                     ELSE [req[r] EXCEPT !.pc = "update"]]
    /\ UNCHANGED <<db, nextId, now, issued, served, gone>>

\* updateUser, lines 61-64: the provided fields plus a fresh updatedAt
UpdateData(updates, date) ==
    [c \in DOMAIN updates \cup {"updatedAt"} |->
        IF c = "updatedAt" THEN date ELSE updates[c]]

\* updateUser, lines 66-78: the update statement and the controller's answer.
\* No row with the id returns nothing, and the controller answers 200 with an
\* undefined user, which JSON leaves out; a duplicate email is refused by the
\* table, and the error reaches the catch block
ServiceUpdate(r) ==
    /\ req[r].pc = "update"
    /\ NoneRunning
    /\ LET id == req[r].id
           updates == req[r].updates
       IN  IF id \notin DOMAIN db
           THEN /\ req' = [req EXCEPT ![r] =
                    Respond(req[r], 200, [message |-> "User updated successfully"])]
                /\ UNCHANGED <<db, now>>
           ELSE IF "email" \in DOMAIN updates /\ UniqueViolation(id, updates.email)
           THEN /\ req' = [req EXCEPT ![r] =
                    Catch(req[r], "duplicate key value violates unique constraint")]
                /\ UNCHANGED <<db, now>>
           ELSE /\ now' = now + 1
                /\ db' = [db EXCEPT ![id] = Merged(db[id], UpdateData(updates, now'))]
                /\ req' = [req EXCEPT ![r] =
                    Respond(req[r], 200,
                            [message |-> "User updated successfully",
                             user |-> Public(db', id)])]
    /\ UNCHANGED <<nextId, issued, served, gone>>

\* deleteUser, lines 90-99, and the controller's answer. No row with the id
\* returns nothing, and reading deletedUser.id throws a TypeError
ServiceDelete(r) ==
    /\ req[r].pc = "delete"
    /\ NoneRunning
    /\ LET id == req[r].id
       IN  IF id \notin DOMAIN db
           THEN /\ req' = [req EXCEPT ![r] =
                    Catch(req[r], "Cannot read properties of undefined")]
                /\ UNCHANGED <<db, gone>>
           ELSE /\ db' = DeleteFrom(db, id)
                /\ gone' = gone \cup {id}
                /\ req' = [req EXCEPT ![r] =
                    Respond(req[r], 200,
                            [message |-> "User deleted successfully",
                             deletedUser |-> [id |-> id, name |-> db[id].name,
                                              email |-> db[id].email,
                                              role |-> db[id].role]])]
    /\ UNCHANGED <<nextId, now, issued, served>>

(* ----------------------------- auth routes ---------------------------- *)

\* signUpSchema.safeParse(req.body): the name and email rules of the user
\* record, and a role that defaults to 'user'
SignUpSchema(body) ==
    [success |-> /\ UpdateFieldOk("name", body.name)
                 /\ UpdateFieldOk("email", body.email)
                 /\ ("role" \in DOMAIN body => UpdateFieldOk("role", body.role)),
     data    |-> [name     |-> UpdateField("name", body.name),
                  email    |-> UpdateField("email", body.email),
                  password |-> body.password,
                  role     |-> IF "role" \in DOMAIN body THEN body.role ELSE "user"]]

\* signInSchema.safeParse(req.body)
SignInSchema(body) ==
    [success |-> UpdateFieldOk("email", body.email),
     data    |-> [email |-> UpdateField("email", body.email),
                  password |-> body.password]]

\* createUser refuses an email some row holds
EmailTaken(email) == SelectByEmail(email) # {}

\* the row createUser inserts
NewRow(data, date) ==
    [name |-> data.name, email |-> data.email, password |-> Hash(data.password),
     role |-> data.role, createdAt |-> date, updatedAt |-> date]

\* res with the token cookie set
WithCookie(s, claims) == [s EXCEPT !.res = [status |-> s.res.status,
                                            body |-> s.res.body,
                                            cookie |-> claims]]

\* the catch block of signup: the one error it answers itself, the rest goes
\* to the error handler
SignupCatch(s, e) ==
    IF e = "User with email already exists"
    THEN Respond(s, 409, [error |-> "Email already exists"])
    ELSE Pass(s)

\* signup with createUser called before the body is validated
SignupValidatesAfter(r) ==
    /\ Free(r)
    /\ nextId <= MaxUsers
    /\ served' = served + 1
    /\ \E body \in SignupBodies :
         LET s == [IdleReq EXCEPT !.method = "SIGNUP", !.rawBody = body]
             v == SignUpSchema(body)
         IN  IF EmailTaken(v.data.email)
             THEN /\ req' = [req EXCEPT ![r] =
                               SignupCatch(s, "User with email already exists")]
                  /\ UNCHANGED <<db, nextId, now, issued>>
             ELSE /\ now' = now + 1
                  /\ nextId' = nextId + 1
                  /\ db' = [i \in DOMAIN db \cup {nextId} |->
                              IF i = nextId THEN NewRow(v.data, now') ELSE db[i]]
                  /\ LET user == [id |-> nextId, name |-> v.data.name,
                                  email |-> v.data.email, role |-> v.data.role]
                     IN  IF ~v.success
                         THEN /\ req' = [req EXCEPT ![r] =
                                           Respond(s, 400, ValidationFailed)]
                              /\ UNCHANGED issued
                         ELSE /\ issued' = issued \cup {Claims(user)}
                              /\ req' = [req EXCEPT ![r] =
                                   WithCookie(Respond(s, 201,
                                       [message |-> "User registered", user |-> user]),
                                       Claims(user))]
    /\ UNCHANGED gone

\* POST /signup: validation, createUser (which refuses an email in use),
\* the token, the cookie and the 201
Signup(r) ==
    /\ Free(r)
    /\ nextId <= MaxUsers
    /\ served' = served + 1
    /\ \E body \in SignupBodies :
         LET s == [IdleReq EXCEPT !.method = "SIGNUP", !.rawBody = body]
             v == SignUpSchema(body)
         IN  IF ~v.success
             THEN /\ req' = [req EXCEPT ![r] = Respond(s, 400, ValidationFailed)]
                  /\ UNCHANGED <<db, nextId, now, issued>>
             ELSE IF EmailTaken(v.data.email)
             THEN /\ req' = [req EXCEPT ![r] =
                               SignupCatch(s, "User with email already exists")]
                  /\ UNCHANGED <<db, nextId, now, issued>>
             ELSE /\ now' = now + 1
                  /\ nextId' = nextId + 1
                  /\ db' = [i \in DOMAIN db \cup {nextId} |->
                              IF i = nextId THEN NewRow(v.data, now') ELSE db[i]]
                  /\ LET user == [id |-> nextId, name |-> v.data.name,
                                  email |-> v.data.email, role |-> v.data.role]
                     IN  /\ issued' = issued \cup {Claims(user)}
                         /\ req' = [req EXCEPT ![r] =
                               WithCookie(Respond(s, 201,
                                   [message |-> "User registered", user |-> user]),
                                   Claims(user))]
    /\ UNCHANGED gone

\* authenticateUser: the rows with the email whose stored password matches
Authenticated(data) ==
    { i \in DOMAIN db : db[i].email = data.email
                        /\ db[i].password = Hash(data.password) }

\* the catch block of signin
SigninCatch(s, e) ==
    IF e = "Invalid email or password"
    THEN Respond(s, 401, [error |-> "Invalid email or password"])
    ELSE Pass(s)

\* POST /signin: validation, authenticateUser, the token, the cookie and the 200
Signin(r) ==
    /\ Free(r)
    /\ served' = served + 1
    /\ \E body \in SigninBodies :
         LET s == [IdleReq EXCEPT !.method = "SIGNIN", !.rawBody = body]
             v == SignInSchema(body)
         IN  IF ~v.success
             THEN /\ req' = [req EXCEPT ![r] = Respond(s, 400, ValidationFailed)]
                  /\ UNCHANGED issued
             ELSE IF Authenticated(v.data) = {}
             THEN /\ req' = [req EXCEPT ![r] =
                        SigninCatch(s, "Invalid email or password")]
                  /\ UNCHANGED issued
             ELSE LET id == CHOOSE i \in Authenticated(v.data) : TRUE
                      user == [id |-> id, name |-> db[id].name,
                               email |-> db[id].email, role |-> db[id].role]
                  IN  /\ issued' = issued \cup {Claims(user)}
                      /\ req' = [req EXCEPT ![r] =
                            WithCookie(Respond(s, 200,
                                [message |-> "Sign in successful", user |-> user]),
                                Claims(user))]
    /\ UNCHANGED <<db, nextId, now, gone>>

\* POST /signout: the cookie the request came with is not read; the answer
\* clears the cookie and nothing else happens
Signout(r) ==
    /\ Free(r)
    /\ served' = served + 1
    /\ \E c \in Cookies :
         req' = [req EXCEPT ![r] =
                   WithCookie(Respond([IdleReq EXCEPT !.method = "SIGNOUT",
                                                      !.cookie = c], 200,
                                      [message |-> "Sign out successful"]),
                              NoClaims)]
    /\ UNCHANGED <<db, nextId, now, issued, gone>>

(* ---------------------------- specification --------------------------- *)

Next ==
    \E r \in Slots :
        \/ AuthenticateToken(r)
        \/ GetUserById(r)
        \/ UpdateUser(r)
        \/ DeleteUser(r)
        \/ FetchAllUsers(r)
        \/ ServiceGetUserById(r)
        \/ ServiceEmailExists(r)
        \/ ServiceUpdate(r)
        \/ ServiceDelete(r)
        \/ Signup(r)
        \/ Signin(r)
        \/ Signout(r)

Spec == Init /\ [][Next]_vars

(* ------------------------------- claims ------------------------------- *)

\* what the schemas make of the id and the body a request came with
IdOf(s) == UserIdSchema(s.rawId)
BodyOf(s) == UpdateUserSchema(s.rawBody)

\* no row present before and after the step has another role after it
RolesUnchanged == \A i \in DOMAIN db \cap DOMAIN db' : db'[i].role = db[i].role

\* C1: a stored role changes only in the update statement of a PUT whose actor
\* is an admin, and every step of a PUT that carries a role and whose actor is
\* not an admin leaves all stored roles as they were and ends the request
\* with a refusal.
C1_RoleChangedOnlyByAdmin ==
    [][ /\ ~RolesUnchanged =>
             \E r \in Slots : /\ req[r].pc = "update"
                              /\ req[r].method = "PUT"
                              /\ req[r].user.role = "admin"
                              /\ req'[r].pc = "done"
                              /\ req'[r].res.status = 200
        /\ \A r \in Slots :
             ( /\ req'[r] # req[r]
               /\ req'[r].method = "PUT"
               /\ "role" \in DOMAIN req'[r].rawBody
               /\ req'[r].user.role # "admin" )
             => /\ RolesUnchanged
                /\ req'[r].pc = "done"
                /\ req'[r].res.status \in {400, 403} ]_vars

\* an admin's PUT has changed the role of a row
C1_Witness ==
    \E r \in Slots :
        /\ req[r].pc = "done"
        /\ req[r].method = "PUT"
        /\ req[r].res.status = 200
        /\ req[r].user.role = "admin"
        /\ "role" \in DOMAIN req[r].updates
        /\ req[r].id \in DOMAIN db \cap {1, 2}
        /\ db[req[r].id].role = req[r].updates.role
        /\ db[req[r].id].role # InitialUsers[req[r].id].role

\* an answered PUT of an actor with role 'user' on the actor's own id
OwnPutByUser(s) ==
    /\ s.pc = "done"
    /\ s.method = "PUT"
    /\ s.user.role = "user"
    /\ IdOf(s).success
    /\ IdOf(s).id = s.user.id

\* C2, as stated: every PUT of a user on their own id whose body has a role
\* key is answered 403, whatever else the body holds.
C2_RoleAttemptAlways403 ==
    \A r \in Slots :
        (OwnPutByUser(req[r]) /\ "role" \in DOMAIN req[r].rawBody)
        => req[r].res.status = 403

\* C2, amended: a PUT of a user on their own id is answered 400 when the body
\* fails validation (an invalid role value included), 403 when the body passes
\* validation and sets role, and is not refused (no 400, 401 or 403) when the
\* body passes validation and sets only name and/or email.
C2_OwnUpdateByUser ==
    \A r \in Slots :
        OwnPutByUser(req[r]) =>
            LET ok      == BodyOf(req[r]).success
                hasRole == "role" \in DOMAIN req[r].rawBody
                status  == req[r].res.status
            IN  /\ ~ok => status = 400
                /\ (ok /\ hasRole) => status = 403
                /\ (ok /\ ~hasRole) => status \notin {400, 401, 403}

\* a user's valid body with a role was refused with 403 on the user's own id,
\* and another user's valid name and email went through
C2_Witness ==
    \E r, q \in Slots :
        /\ OwnPutByUser(req[r])
        /\ BodyOf(req[r]).success
        /\ "role" \in DOMAIN req[r].rawBody
        /\ req[r].res.status = 403
        /\ OwnPutByUser(req[q])
        /\ DOMAIN req[q].updates = {"name", "email"}
        /\ req[q].res.status = 200

\* C3: a PUT (with a valid body) or DELETE of an authenticated actor who is
\* not an admin, on a valid id other than the actor's own, never gets to the
\* service: it is answered 403 straight from the controller, whether or not
\* the id has a row.
C3_OtherUserDenied ==
    \A r \in Slots :
        ( /\ req[r].method \in {"PUT", "DELETE"}
          /\ req[r].pc # "controller"
          /\ req[r].user # NoClaims
          /\ req[r].user.role # "admin"
          /\ IdOf(req[r]).success
          /\ IdOf(req[r]).id # req[r].user.id
          /\ (req[r].method = "PUT" => BodyOf(req[r]).success) )
        => /\ req[r].pc = "done"
           /\ req[r].res.status = 403
           /\ req[r].res.body.error = "Forbidden"

\* a user was refused a PUT on another user's row and a DELETE of an id
\* without a row, and the table is as it was
C3_Witness ==
    \E r, q \in Slots :
        /\ req[r].method = "PUT" /\ req[r].user.role = "user"
        /\ req[r].user.id = 2 /\ IdOf(req[r]).id = 1
        /\ req[r].res.status = 403
        /\ req[q].method = "DELETE" /\ req[q].user.role = "user"
        /\ req[q].user.id = 2 /\ IdOf(req[q]).id = 3
        /\ req[q].res.status = 403
        /\ db = InitialUsers

\* the cookie is missing, or holds something jwttoken.verify refuses
NoValidToken(cookie) ==
    \/ cookie.kind # "jwt"
    \/ cookie.sig # "good"
    \/ cookie.expired

\* C4: a request for GET, PUT or DELETE /users/:id without a token, or with
\* one that is malformed, expired or badly signed, is answered 401 by the
\* middleware; it is never at the controller nor in the service, no user is
\* attached to it and neither its id nor a body is ever parsed.
C4_Unauthenticated401 ==
    \A r \in Slots :
        (req[r].method \in ProtectedMethods /\ NoValidToken(req[r].cookie))
        => /\ req[r].pc = "done"
           /\ req[r].res.status = 401
           /\ req[r].res.body.error = "Unauthorized"
           /\ req[r].user = NoClaims
           /\ req[r].id = 0
           /\ req[r].updates = <<>>
           /\ req[r].rawBody = <<>>

\* an expired token and a forged one were both turned away
C4_Witness ==
    \E r, q \in Slots :
        /\ req[r].method = "PUT"
        /\ req[r].cookie.kind = "jwt" /\ req[r].cookie.expired
        /\ req[r].res.status = 401
        /\ req[q].method = "DELETE"
        /\ req[q].cookie.kind = "jwt" /\ req[q].cookie.sig = "bad"
        /\ req[q].res.status = 401

\* C5: when updateUser's existence read finds no row for the id of a PUT
\* (whose payload has passed validation), the service throws 'User not found',
\* the handler answers 404 and the table is untouched.
C5_UpdateOfMissingIdIs404 ==
    [][ \A r \in Slots :
          ( /\ req[r].pc = "getUserById"
            /\ req[r].method = "PUT"
            /\ req'[r] # req[r]
            /\ req[r].id \notin DOMAIN db )
          => /\ req'[r].pc = "done"
             /\ req'[r].res.status = 404
             /\ req'[r].res.body.error = "User not found"
             /\ db' = db ]_vars

\* a valid PUT on an id without a row was answered 404
C5_Witness ==
    \E r \in Slots :
        /\ req[r].pc = "done"
        /\ req[r].method = "PUT"
        /\ BodyOf(req[r]).success
        /\ req[r].id \notin DOMAIN db
        /\ req[r].res.status = 404

\* C6: an update whose email differs from the one of the row it read goes to
\* the email lookup, and when the lookup finds the email on another row the
\* service throws 'Email already exists', the handler answers 409 and no row
\* changes, whatever other fields the payload carries.
C6_EmailCollisionIs409 ==
    [][ \A r \in Slots :
          /\ ( /\ req[r].pc = "getUserById"
               /\ req[r].method = "PUT"
               /\ req'[r] # req[r]
               /\ req[r].id \in DOMAIN db
               /\ "email" \in DOMAIN req[r].updates
               /\ req[r].updates.email # db[req[r].id].email )
             => (req'[r].pc = "emailExists" /\ db' = db)
          /\ ( /\ req[r].pc = "emailExists"
               /\ req'[r] # req[r]
               /\ \E i \in DOMAIN db : /\ i # req[r].id
                                       /\ db[i].email = req[r].updates.email )
             => /\ req'[r].pc = "done"
                /\ req'[r].res.status = 409
                /\ req'[r].res.body.error = "Email already exists"
                /\ db' = db ]_vars

\* a PUT with a name and another user's email was answered 409, and the row
\* it aimed at is as it was
C6_Witness ==
    \E r \in Slots :
        /\ req[r].pc = "done"
        /\ req[r].method = "PUT"
        /\ DOMAIN req[r].updates = {"name", "email"}
        /\ req[r].res.status = 409
        /\ req[r].id \in {1, 2}
        /\ db = InitialUsers

\* C7, as stated: of two answered updates that set the same new email on two
\* different existing users, one is answered 200 and the other 409.
C7_RaceOneWinsOther409 ==
    \A r, q \in Slots :
        ( /\ r # q
          /\ req[r].pc = "done" /\ req[q].pc = "done"
          /\ req[r].method = "PUT" /\ req[q].method = "PUT"
          /\ "email" \in DOMAIN req[r].updates
          /\ "email" \in DOMAIN req[q].updates
          /\ req[r].updates.email = req[q].updates.email
          /\ \A i \in 1..2 : InitialUsers[i].email # req[r].updates.email
          /\ req[r].id # req[q].id
          /\ {req[r].id, req[q].id} \subseteq {1, 2} )
        => {req[r].res.status, req[q].res.status} = {200, 409}

\* C8: no two rows of the users table hold the same email.
C8_EmailsUnique ==
    \A i, j \in DOMAIN db : i # j => db[i].email # db[j].email

\* two updates raced for one new email; one holds it, the other was refused
\* by the table
C8_Witness ==
    \E r, q \in Slots :
        /\ req[r].pc = "done" /\ req[q].pc = "done"
        /\ req[r].method = "PUT" /\ req[q].method = "PUT"
        /\ req[r].id # req[q].id
        /\ "email" \in DOMAIN req[r].updates
        /\ req[r].updates = req[q].updates
        /\ req[r].res.status = 200
        /\ req[q].res.status = 500
        /\ req[r].id \in DOMAIN db
        /\ db[req[r].id].email = req[r].updates.email

\* C9: once a DELETE has answered 200 for an id, every getUserById read of
\* that id finds nothing and is answered 404, and no list of GET /users holds
\* the id.
C9_DeletedStaysGone ==
    [][ \A r \in Slots :
          /\ ( /\ req[r].pc = "getUserById"
               /\ req'[r] # req[r]
               /\ req[r].id \in gone )
             => /\ req'[r].pc = "done"
                /\ req'[r].res.status = 404
                /\ req'[r].res.body.error = "User not found"
          /\ ( /\ req'[r] # req[r]
               /\ req'[r].method = "GETALL" )
             => \A u \in req'[r].res.body.users : u.id \notin gone ]_vars

\* a GET with a valid token on a deleted id was answered 404
C9_Witness ==
    \E r \in Slots :
        /\ req[r].pc = "done"
        /\ req[r].method = "GET"
        /\ req[r].id \in gone
        /\ req[r].res.status = 404

\* the id, email and role of a user object
Identity(user) == [id |-> user.id, email |-> user.email, role |-> user.role]

\* C10: a signup answered 201 returns the created user without a password
\* field and sets a token cookie with that user's id, email and role; a GET
\* /users/:id without a cookie is answered 401; and a GET with a verified
\* token on the token's own id, while the row still has the token's email and
\* role, is answered 200 with that id, email and role.
C10_SignupThenGet ==
    /\ [](\A r \in Slots :
            /\ ( /\ req[r].method = "SIGNUP"
                 /\ req[r].res.status = 201 )
               => /\ DOMAIN req[r].res.body.user = {"id", "name", "email", "role"}
                  /\ "cookie" \in DOMAIN req[r].res
                  /\ req[r].res.cookie = Identity(req[r].res.body.user)
                  /\ req[r].res.cookie \in issued
            /\ (req[r].method = "GET" /\ req[r].cookie.kind = "none")
               => req[r].res.status = 401)
    /\ [][ \A r \in Slots :
             /\ ( /\ req'[r] # req[r]
                  /\ req'[r].method = "SIGNUP"
                  /\ req'[r].res.status = 201 )
                => LET user == req'[r].res.body.user
                   IN  /\ user.id \notin DOMAIN db
                       /\ user.id \in DOMAIN db'
                       /\ Identity(Public(db', user.id)) = Identity(user)
                       /\ db'[user.id].name = user.name
             /\ ( /\ req[r].pc = "getUserById"
                  /\ req[r].method = "GET"
                  /\ req'[r] # req[r]
                  /\ req[r].id = req[r].user.id
                  /\ req[r].id \in DOMAIN db
                  /\ Identity(Public(db, req[r].id)) = req[r].user )
                => /\ req'[r].res.status = 200
                   /\ Identity(req'[r].res.body.user) = req[r].user ]_vars

\* a signup was answered 201 and a GET with its cookie on its id was answered
\* 200 with the same id, email and role
C10_Witness ==
    \E r, q \in Slots :
        /\ req[r].method = "SIGNUP"
        /\ req[r].res.status = 201
        /\ req[r].res.body.user.role = "admin"
        /\ req[q].method = "GET"
        /\ req[q].pc = "done"
        /\ req[q].cookie = Jwt(req[r].res.cookie, "good", FALSE)
        /\ req[q].id = req[r].res.body.user.id
        /\ req[q].res.status = 200
        /\ Identity(req[q].res.body.user) = Identity(req[r].res.body.user)

\* the user objects a response body carries
UsersIn(body) ==
    (IF "user" \in DOMAIN body THEN {body.user} ELSE {})
    \cup (IF "deletedUser" \in DOMAIN body THEN {body.deletedUser} ELSE {})
    \cup (IF "users" \in DOMAIN body THEN body.users ELSE {})

\* C11: no response body of signup, signin, GET /users, GET /users/:id,
\* PUT /users/:id or DELETE /users/:id, success or error, has a password
\* field, at its top level or in a user object it carries.
C11_NoPasswordInResponses ==
    \A r \in Slots :
        req[r].res.status # 0
        => /\ "password" \notin DOMAIN req[r].res.body
           /\ \A u \in UsersIn(req[r].res.body) : "password" \notin DOMAIN u

\* an update of a stored row, which holds a password, was answered 200 with
\* the row, while the other slot holds a list of all users
C11_Witness ==
    \E r, q \in Slots :
        /\ req[r].method = "PUT"
        /\ req[r].res.status = 200
        /\ UsersIn(req[r].res.body) # {}
        /\ req[q].method = "GETALL"
        /\ UsersIn(req[q].res.body) # {}
        /\ \A i \in DOMAIN db : "password" \in DOMAIN db[i]

\* C12, as stated: validation comes before the token requirement, so every
\* answered GET, PUT or DELETE /users/:id whose path id fails userIdSchema is
\* answered 400, with or without a verified token; and an answer of 403 is
\* given only to a validated request with a verified token.
C12_ValidationBeforeToken ==
    \A r \in Slots :
        ( /\ req[r].method \in ProtectedMethods
          /\ req[r].res.status # 0 )
        => /\ ~IdOf(req[r]).success => req[r].res.status = 400
           /\ req[r].res.status = 403
              => (IdOf(req[r]).success /\ JwtVerifies(req[r].cookie))

\* errors other than the two the services signal by name: the table's refusal
\* of a duplicate email and the TypeError of reading a row that is not there
OtherErrors ==
    {"duplicate key value violates unique constraint",
     "Cannot read properties of undefined"}

\* what the service behind each handler can throw
Thrown(m) ==
    {"User not found"} \cup OtherErrors
    \cup (IF m = "PUT" THEN {"Email already exists"} ELSE {})

\* the bodies of the 500 answers
GenericMessages == {"Error getting user", "Error updating user", "Error deleting user"}

\* a 500 answer with a fixed message and nothing else
Generic500(res, e) ==
    /\ res.status = 500
    /\ DOMAIN res.body = {"message"}
    /\ res.body.message \in GenericMessages
    /\ res.body.message # e

\* C13: in the getUserById, updateUser and deleteUser handlers a thrown 'User
\* not found' is answered 404, 'Email already exists' 409, and any other error
\* 500 with a fixed message that holds none of the error's text; and this is
\* what each service step that throws is answered with.
C13_ErrorMapping ==
    /\ [](\A m \in ProtectedMethods : \A e \in Thrown(m) :
            LET a == Catch([IdleReq EXCEPT !.method = m], e)
            IN  /\ a.pc = "done"
                /\ e = "User not found"
                   => a.res = [status |-> 404, body |-> [error |-> e]]
                /\ e = "Email already exists"
                   => a.res = [status |-> 409, body |-> [error |-> e]]
                /\ e \in OtherErrors => Generic500(a.res, e))
    /\ [][ \A r \in Slots :
             req'[r] # req[r]
             => /\ (req[r].pc = "getUserById" /\ req[r].id \notin DOMAIN db)
                   => req'[r].res = [status |-> 404,
                                     body |-> [error |-> "User not found"]]
                /\ ( /\ req[r].pc = "emailExists"
                     /\ SelectByEmail(req[r].updates.email) # {} )
                   => req'[r].res = [status |-> 409,
                                     body |-> [error |-> "Email already exists"]]
                /\ ( /\ req[r].pc = "update"
                     /\ req[r].id \in DOMAIN db
                     /\ "email" \in DOMAIN req[r].updates
                     /\ UniqueViolation(req[r].id, req[r].updates.email) )
                   => \A e \in OtherErrors : Generic500(req'[r].res, e)
                /\ (req[r].pc = "delete" /\ req[r].id \notin DOMAIN db)
                   => \A e \in OtherErrors : Generic500(req'[r].res, e) ]_vars

\* a DELETE whose row another DELETE removed first was answered 500 with the
\* fixed message, and the other with 200
C13_Witness ==
    \E r, q \in Slots :
        /\ req[r].method = "DELETE"
        /\ req[r].res.status = 500
        /\ req[r].res.body = [message |-> "Error deleting user"]
        /\ req[q].method = "DELETE"
        /\ req[q].res.status = 200

\* C14, as stated: every answer below 400 has a 'message' key in its body and
\* every answer of 400 and above has an 'error' key.
C14_UniformEnvelope ==
    \A r \in Slots :
        req[r].res.status # 0
        => /\ req[r].res.status < 400 => "message" \in DOMAIN req[r].res.body
           /\ req[r].res.status >= 400 => "error" \in DOMAIN req[r].res.body

\* C15: GET /users is answered 200 whatever cookie it carries, none or an
\* invalid one included, with the public projection of every row of the table
\* and a count equal to the number of rows; the table is not touched.
C15_ListIsOpen ==
    [][ \A r \in Slots :
          (req'[r] # req[r] /\ req'[r].method = "GETALL")
          => /\ req'[r].pc = "done"
             /\ req'[r].res.status = 200
             /\ req'[r].res.body.users = { Public(db, i) : i \in DOMAIN db }
             /\ req'[r].res.body.count = Cardinality(DOMAIN db)
             /\ Cardinality(req'[r].res.body.users) = req'[r].res.body.count
             /\ db' = db ]_vars

\* a GET /users without a valid token was answered 200 with all three rows of
\* the table
C15_Witness ==
    \E r \in Slots :
        /\ req[r].method = "GETALL"
        /\ NoValidToken(req[r].cookie)
        /\ req[r].res.status = 200
        /\ req[r].res.body.count = 3
        /\ {u.id : u \in req[r].res.body.users} = {1, 2, 3}

C17_ReadOwnOrAdmin ==
    \A r \in Slots :
        ( /\ req[r].method = "GET"
          /\ req[r].res.status = 200
          /\ req[r].user.role # "admin" )
        => req[r].id = req[r].user.id

\* the recognised keys of a raw body
Provided(body) == DOMAIN body \cap UpdateKeys

\* C18: a PUT /users/:id whose body, once read by its handler, provides none
\* of name, email and role (unrecognised keys aside) is answered 400
\* 'Validation failed', and the request never holds a position in the service.
C18_EmptyUpdateRefused ==
    [][ \A r \in Slots :
          ( /\ req[r].pc = "controller"
            /\ req[r].method = "PUT"
            /\ req'[r] # req[r]
            /\ Provided(req'[r].rawBody) = {} )
          => /\ req'[r].pc = "done"
             /\ req'[r].res.status = 400
             /\ req'[r].res.body.error = "Validation failed"
             /\ db' = db ]_vars

\* a PUT with a verified token and a valid id whose body has only an
\* unrecognised key was answered 400
C18_Witness ==
    \E r \in Slots :
        /\ req[r].method = "PUT"
        /\ JwtVerifies(req[r].cookie)
        /\ IdOf(req[r]).success
        /\ DOMAIN req[r].rawBody = {"extra"}
        /\ req[r].res.status = 400
        /\ req[r].res.body.error = "Validation failed"

\* a DELETE by a verified admin token on the token's own id
AdminSelfDelete(s) ==
    /\ s.method = "DELETE"
    /\ JwtVerifies(s.cookie)
    /\ s.cookie.claims.role = "admin"
    /\ IdOf(s).success
    /\ IdOf(s).id = s.cookie.claims.id

C20_UpdateMergesProvidedFields ==
    [][ \A r \in Slots :
          ( /\ req[r].pc = "update"
            /\ req'[r] # req[r]
            /\ req[r].id \in DOMAIN db
            /\ req'[r].res.status = 200 )
          => LET id == req[r].id
                 updates == req[r].updates
             IN  /\ DOMAIN db' = DOMAIN db
                 /\ \A c \in DOMAIN updates : db'[id][c] = updates[c]
                 /\ \A c \in {"name", "email", "role", "password", "createdAt"}
                            \ DOMAIN updates : db'[id][c] = db[id][c]
                 /\ db'[id].updatedAt > db[id].updatedAt
                 /\ \A i \in DOMAIN db \ {id} : db'[i] = db[i]
                 /\ req'[r].res.body.user = Public(db', id)
                 /\ req'[r].res.body.user.id = id ]_vars

\* an update of the name alone was answered 200: the row has the trimmed name,
\* a later updatedAt, and its email, role and createdAt as before
C20_Witness ==
    \E r \in Slots :
        /\ req[r].method = "PUT"
        /\ req[r].res.status = 200
        /\ req[r].id = 2
        /\ req[r].rawBody = [name |-> <<" ", "b", "o">>]
        /\ 2 \in DOMAIN db
        /\ db[2].name = <<"b", "o">>
        /\ db[2].email = InitialUsers[2].email
        /\ db[2].role = InitialUsers[2].role
        /\ db[2].createdAt = InitialUsers[2].createdAt
        /\ db[2].updatedAt > InitialUsers[2].updatedAt
        /\ db[1] = InitialUsers[1]
        /\ req[r].res.body.user = Public(db, 2)

\* C21: a delete statement that finds its row removes that row and no other,
\* and is answered 200 with the id, name, email and role the row had; a DELETE
\* whose existence read finds no row is answered 404 'User not found' with the
\* table as it was.
C21_DeleteRemovesExactlyTheRow ==
    [][ \A r \in Slots :
          (req[r].method = "DELETE" /\ req'[r] # req[r])
          => /\ (req[r].pc = "delete" /\ req[r].id \in DOMAIN db)
                => /\ DOMAIN db' = DOMAIN db \ {req[r].id}
                   /\ \A i \in DOMAIN db' : db'[i] = db[i]
                   /\ req'[r].res.status = 200
                   /\ req'[r].res.body.deletedUser =
                        [id |-> req[r].id, name |-> db[req[r].id].name,
                         email |-> db[req[r].id].email,
                         role |-> db[req[r].id].role]
             /\ (req[r].pc = "getUserById" /\ req[r].id \notin DOMAIN db)
                => /\ req'[r].res.status = 404
                   /\ req'[r].res.body = [error |-> "User not found"]
                   /\ db' = db
             /\ (req[r].pc = "getUserById" /\ req[r].id \in DOMAIN db)
                => (req'[r].pc = "delete" /\ db' = db) ]_vars

\* user 2 was deleted: the answer carries the row's fields, and row 1 is all
\* that is left, as it was
C21_Witness ==
    \E r \in Slots :
        /\ req[r].method = "DELETE"
        /\ req[r].res.status = 200
        /\ req[r].res.body.deletedUser =
             [id |-> 2, name |-> InitialUsers[2].name,
              email |-> InitialUsers[2].email, role |-> InitialUsers[2].role]
        /\ DOMAIN db = {1}
        /\ db[1] = InitialUsers[1]

\* the positions of a request inside the users service
ServicePcs == {"getUserById", "emailExists", "update", "delete"}

\* C22: a request that is answered 400, 401 or 403 is answered from outside
\* the service, before any statement of it has run, and the step that answers
\* it leaves the table as it was; no step of a GET /users/:id or GET /users
\* changes the table.
C22_RefusedRequestsChangeNothing ==
    [][ \A r \in Slots :
          req'[r] # req[r]
          => /\ req'[r].res.status \in {400, 401, 403}
                => /\ req[r].pc \notin ServicePcs
                   /\ db' = db
                   /\ nextId' = nextId
             /\ req'[r].method \in {"GET", "GETALL"} => db' = db ]_vars

\* a DELETE of another user's row by a user was answered 403 and a GET was
\* answered 200, and the table is as it started
C22_Witness ==
    \E r, q \in Slots :
        /\ req[r].method = "DELETE"
        /\ req[r].res.status = 403
        /\ req[q].method = "GET"
        /\ req[q].res.status = 200
        /\ db = InitialUsers

\* the decimal representation of a positive integer: digits only, not all zero
IsPositiveDecimal(raw) ==
    /\ Len(raw) >= 1
    /\ \A i \in 1..Len(raw) : IsDigit(raw[i])
    /\ DecimalValue(raw) > 0

\* C23, as stated: a GET, PUT or DELETE /users/:id that reaches its handler
\* with an id string that is not the decimal representation of a positive
\* integer is answered 400 'Validation failed'; an accepted id reaches the
\* service as the integer it denotes.
C23_IdIsPositiveInteger ==
    \A r \in Slots :
        ( /\ req[r].method \in ProtectedMethods
          /\ JwtVerifies(req[r].cookie)
          /\ req[r].pc # "controller" )
        => /\ ~IsPositiveDecimal(req[r].rawId)
              => /\ req[r].pc = "done"
                 /\ req[r].res.status = 400
                 /\ req[r].res.body.error = "Validation failed"
           /\ (req[r].pc \in ServicePcs /\ IsPositiveDecimal(req[r].rawId))
              => req[r].id = DecimalValue(req[r].rawId)

\* a step in which request r writes to the table on an admin's authority: an
\* update that sets a role, or an update or delete of a row that is not the
\* actor's own
AdminOnlyWrite(r) ==
    /\ req[r].pc \in {"update", "delete"}
    /\ req'[r] # req[r]
    /\ db' # db
    /\ \/ "role" \in DOMAIN req[r].updates
       \/ req[r].id # req[r].user.id

\* C24, as stated: whenever such a write succeeds, the actor's row is in the
\* table with role 'admin' at that moment.
C24_CurrentRoleAuthorizes ==
    [][ \A r \in Slots :
          AdminOnlyWrite(r)
          => /\ req[r].user.id \in DOMAIN db
             /\ db[req[r].user.id].role = "admin" ]_vars

\* C25, as stated: a request that arrives with a token of a user already
\* deleted never changes the table.
C25_DeletedUserCannotAct ==
    [][ \A r \in Slots :
          (req[r].orphan /\ req'[r] # req[r]) => db' = db ]_vars

\* C26, as stated: once a POST /signout that came with a token has been
\* answered, a GET, PUT or DELETE /users/:id that arrives with the same token,
\* not expired, is answered 401.
C26_SignoutEndsSession ==
    [][ \A r, q \in Slots :
          ( /\ r # q
            /\ req[r].method = "SIGNOUT"
            /\ req[r].res.status = 200
            /\ req[q].pc \in {"idle", "done"}
            /\ req'[q] # req[q]
            /\ req'[q].method \in ProtectedMethods
            /\ req'[q].cookie = req[r].cookie
            /\ ~req'[q].cookie.expired )
          => req'[q].res.status = 401 ]_vars

\* C27, as stated: every 200 answer of PUT /users/:id carries a user object,
\* and that user is the row the table holds when the answer is written.
C27_UpdateAnswerHasUser ==
    [][ \A r \in Slots :
          ( /\ req[r].method = "PUT"
            /\ req[r].pc \in ServicePcs
            /\ req'[r] # req[r]
            /\ req'[r].res.status = 200 )
          => /\ "user" \in DOMAIN req'[r].res.body
             /\ req[r].id \in DOMAIN db'
             /\ req'[r].res.body.user = Public(db', req[r].id) ]_vars

\* C28, as stated: of two answered, authorized DELETE /users/:id for the
\* same id, which had a row, one is answered 200 and the other 404.
C28_DeleteRaceOne200Other404 ==
    \A r, q \in Slots :
        ( /\ r # q
          /\ req[r].method = "DELETE" /\ req[q].method = "DELETE"
          /\ req[r].pc = "done" /\ req[q].pc = "done"
          /\ req[r].res.status \notin {400, 401, 403}
          /\ req[q].res.status \notin {400, 401, 403}
          /\ req[r].id = req[q].id
          /\ req[r].id \in DOMAIN InitialUsers )
        => {req[r].res.status, req[q].res.status} = {200, 404}

\* C29, as stated: no request has both an answer written and its error passed
\* on to the next handler.
C29_NoNextAfterResponse ==
    \A r \in Slots : ~(req[r].res.status # 0 /\ req[r].passed)

\* an update that carries the email the row holds
KeepsOwnEmail(s) ==
    /\ s.method = "PUT"
    /\ s.id \in DOMAIN db
    /\ "email" \in DOMAIN s.updates
    /\ s.updates.email = db[s.id].email

\* C30: an update whose email is the one its row holds when the service reads
\* the row skips the email lookup and goes to the update statement; when the
\* row still holds that email there, the statement is answered 200, not 409,
\* with the other provided fields written and the email as it was.
C30_OwnEmailIsNoCollision ==
    [][ \A r \in Slots :
          (KeepsOwnEmail(req[r]) /\ req'[r] # req[r])
          => /\ req[r].pc = "getUserById" => (req'[r].pc = "update" /\ db' = db)
             /\ req[r].pc = "update"
                => /\ req'[r].res.status = 200
                   /\ \A c \in DOMAIN req[r].updates :
                         db'[req[r].id][c] = req[r].updates[c]
                   /\ db'[req[r].id].email = db[req[r].id].email ]_vars

\* user 2 sent a new name together with their own email, in capitals: the
\* answer is 200, the name is written and the email is as before
C30_Witness ==
    \E r \in Slots :
        /\ req[r].method = "PUT"
        /\ req[r].id = 2
        /\ req[r].rawBody = [name |-> <<" ", "b", "o">>, email |-> <<"B", "@", "x">>]
        /\ req[r].res.status = 200
        /\ 2 \in DOMAIN db
        /\ db[2].name = <<"b", "o">>
        /\ db[2].email = InitialUsers[2].email
        /\ req[r].res.body.user.email = InitialUsers[2].email

====
